---- MODULE Spec2Model ----
(***************************************************************************)
(* Task lifecycle, batch orchestration and status tracking of the file     *)
(* conversion service (src/converter.py, src/api.py).                      *)
(*                                                                         *)
(* Scheduling.  Every endpoint of src/api.py is an `async def` run by one  *)
(* asyncio event loop; perform_conversion (api.py 331-351) and             *)
(* process_batch_conversion (api.py 674-730) are coroutines whose bodies   *)
(* hold no `await`, and FileConverter's methods are synchronous.  So once  *)
(* one of them starts, no other handler runs until it returns.  The model  *)
(* keeps their statements as separate steps (variable frame is the running *)
(* coroutine and its position) and lets a request handler run only when    *)
(* frame is idle.                                                          *)
(***************************************************************************)
EXTENDS Integers, Sequences, FiniteSets, TLC

\* ---------------------------------------------------------------- bounds
MaxTasks == 2          \* registry task ids handed out (uuid4 values)
MaxBatches == 1        \* batch ids handed out (uuid4 values)
MaxVaried == 2         \* longest batch request with freely mixed files
MaxRequestFiles == 11  \* longest batch request (same file repeated)
MaxLibPairs == 2       \* longest file_pairs list given to batch_convert
MaxSimple == 1         \* temporary-file pairs /convert-simple leaves behind

\* ------------------------------------------------------ program constants
MaxBatchFiles == 10    \* api.py 587: "Limite de 10 arquivos por lote"
MAX_CONCURRENT_CONVERSIONS == 2   \* config.py 34

NULL == "None"

\* ------------------------------------------------------------ ConversionStatus
PENDING == "pending"
PROCESSING == "processing"
COMPLETED == "completed"
FAILED == "failed"
Terminal == {COMPLETED, FAILED}

\* ------------------------------------------------------------ uploads
\* An upload is a file name (stem, suffix: pathlib's split) and what the
\* external tool does when it is fed the bytes: "ok" (exit code 0),
\* "nonzero" (non-zero exit code), "raise" (the library throws).
Uploads ==
  { [stem |-> "a",     suffix |-> ".png",        content |-> "ok"],
    [stem |-> "movie", suffix |-> ".MKV",        content |-> "nonzero"],
    [stem |-> "song",  suffix |-> ".mp3",        content |-> "raise"],
    [stem |-> "notes", suffix |-> ".unknownext", content |-> "ok"],
    [stem |-> "",      suffix |-> "",            content |-> "ok"] }

NamedUploads == {u \in Uploads : ~(u.stem = "" /\ u.suffix = "")}

OutputFormats == {"jpg"}

\* str.lower() on the suffixes the model uses
Lower(s) ==
  CASE s = ".MKV" -> ".mkv"
    [] s = ".PNG" -> ".png"
    [] s = ".Mp3" -> ".mp3"
    [] s = ".DOCX" -> ".docx"
    [] OTHER -> s

\* ------------------------------------------------------------ format_mappings
VideoExtensions ==
  {".mp4", ".avi", ".mov", ".mkv", ".wmv", ".flv", ".webm", ".m4v", ".3gp",
   ".mpg", ".mpeg", ".ts", ".mts", ".m2ts", ".vob", ".ogv", ".dv", ".rm",
   ".rmvb", ".asf", ".f4v", ".f4p", ".f4a", ".f4b"}

ImageExtensions ==
  {".jpg", ".jpeg", ".png", ".bmp", ".gif", ".tiff", ".tif", ".webp", ".heic",
   ".heif", ".avif", ".svg", ".ico", ".raw", ".cr2", ".nef", ".arw", ".dng",
   ".psd", ".xcf", ".eps", ".pcx", ".tga", ".jp2", ".jxr"}

DocumentExtensions ==
  {".docx", ".doc", ".pptx", ".ppt", ".xlsx", ".xls", ".pdf", ".txt", ".rtf",
   ".md", ".html", ".htm", ".csv", ".odt", ".ods", ".odp", ".pages",
   ".numbers", ".key", ".epub", ".mobi", ".azw", ".azw3", ".fb2", ".tex"}

AudioExtensions ==
  {".mp3", ".aac", ".ogg", ".m4a", ".wma", ".opus", ".wav", ".flac", ".ape",
   ".tak", ".tta", ".wv", ".aiff", ".au", ".ra", ".amr", ".3ga", ".ac3",
   ".dts", ".mka", ".caf", ".sd2"}

\* win32com is not importable off Windows: converter.py 32-38
OFFICE_AVAILABLE == FALSE

\* ------------------------------------------------------------ paths and files
\* A path is a unique temporary name plus the suffix it was created with;
\* Path(p).suffix is p.suffix.
TempPath(owner, kind, suffix) == [owner |-> owner, kind |-> kind, suffix |-> suffix]

\* the local files a caller of the library hands to batch_convert
LibInput(u) == TempPath(<<"lib", u.stem>>, "in", u.suffix)
LibOutput(u) == TempPath(<<"lib", u.stem>>, "out", ".pdf")

Exists(fsys, p) == p \in DOMAIN fsys
WriteFile(fsys, p, c) == [q \in DOMAIN fsys \cup {p} |-> IF q = p THEN c ELSE fsys[q]]
Unlink(fsys, ps) == [q \in DOMAIN fsys \ ps |-> fsys[q]]

\* ------------------------------------------------------------ FileConverter
get_file_category_CaseSensitive(file_path) ==
  LET ext == file_path.suffix IN
  IF ext \in VideoExtensions THEN "video"
  ELSE IF ext \in ImageExtensions THEN "image"
  ELSE IF ext \in DocumentExtensions THEN "document"
  ELSE IF ext \in AudioExtensions THEN "audio"
  ELSE "unsupported"

get_file_category(file_path) ==
  LET ext == Lower(file_path.suffix) IN
  CASE ext \in VideoExtensions -> "video"
    [] ext \in ImageExtensions -> "image"
    [] ext \in DocumentExtensions -> "document"
    [] ext \in AudioExtensions -> "audio"
    [] OTHER -> "unsupported"

\* What the external tool does with the input file: its bytes decide; a
\* missing input makes the tool throw.
RunTool(fsys, input_file) ==
  IF Exists(fsys, input_file) THEN fsys[input_file] ELSE "raise"

\* What a Python call does: it returns a value or raises an exception
\* whose str() is message.
Return(value) == [kind |-> "return", value |-> value]
Raise(message) == [kind |-> "raise", message |-> message]

ExceptReturnFalse_Reraises(result) == result

\* try: <call> except Exception: return False
ExceptReturnFalse(result) ==
  IF result.kind = "raise" THEN Return(FALSE) ELSE result

\* the body of _convert_video / _convert_image / _convert_audio: True on
\* exit code 0, False on a non-zero exit code; the library may throw
MediaBody(fsys, input_file) ==
  LET r == RunTool(fsys, input_file) IN
  CASE r = "ok" -> Return(TRUE)
    [] r = "nonzero" -> Return(FALSE)
    [] OTHER -> Raise("tool error")

\* _convert_video / _convert_image / _convert_audio: the body inside
\* try/except
convert_media(fsys, input_file) == ExceptReturnFalse(MediaBody(fsys, input_file))

\* _convert_document: routes on the two suffixes, False when no route fits
convert_document(fsys, input_file, output_file) ==
  LET input_ext == Lower(input_file.suffix)
      output_ext == Lower(output_file.suffix) IN
  IF \/ (input_ext \in {".docx", ".doc"} /\ output_ext = ".pdf")
     \/ (input_ext = ".pdf" /\ output_ext = ".docx")
     \/ (OFFICE_AVAILABLE /\ input_ext \in {".docx", ".doc", ".pptx", ".ppt", ".xlsx", ".xls"})
  THEN convert_media(fsys, input_file)
  ELSE Return(FALSE)

Dispatch_TriesAnyway(fsys, input_file, output_file) ==
  LET category == get_file_category(input_file) IN
  CASE category = "document" -> convert_document(fsys, input_file, output_file)
    [] OTHER -> convert_media(fsys, input_file)

\* the body of FileConverter.convert_file: routes on the category
Dispatch(fsys, input_file, output_file) ==
  LET category == get_file_category(input_file) IN
  CASE category \in {"video", "image", "audio"} -> convert_media(fsys, input_file)
    [] category = "document" -> convert_document(fsys, input_file, output_file)
    [] OTHER -> Return(FALSE)

\* FileConverter.convert_file: the dispatcher, its body inside try/except
convert_file(fsys, input_file, output_file) ==
  ExceptReturnFalse(Dispatch(fsys, input_file, output_file))

\* the call returned True
Succeeded(result) == result.kind = "return" /\ result.value

\* the file system after convert_file: a successful tool wrote the output
AfterConvert(fsys, input_file, output_file) ==
  IF Succeeded(convert_file(fsys, input_file, output_file))
  THEN WriteFile(fsys, output_file, "converted")
  ELSE fsys

\* ConversionTask as create_conversion_task builds it
NewTask(task_id, input_file, output_file, options) ==
  [ task_id |-> task_id,
    input_file |-> input_file,
    output_file |-> output_file,
    input_format |-> Lower(input_file.suffix),
    output_format |-> Lower(output_file.suffix),
    status |-> PENDING,
    created_at |-> "now",
    completed_at |-> NULL,
    error_message |-> NULL,
    options |-> options ]

create_conversion_task_Overwrites(reg, task_id, input_file, output_file, options) ==
  LET used == IF DOMAIN reg = {} THEN task_id ELSE CHOOSE t \in DOMAIN reg : TRUE IN
  [t \in DOMAIN reg \cup {used} |->
     IF t = used THEN NewTask(used, input_file, output_file, options) ELSE reg[t]]

\* self.tasks[task_id] = task
create_conversion_task(reg, task_id, input_file, output_file, options) ==
  [t \in DOMAIN reg \cup {task_id} |->
     IF t = task_id THEN NewTask(task_id, input_file, output_file, options) ELSE reg[t]]

\* ------------------------------------------------------------ state
VARIABLES
  tasks,        \* converter.tasks: task id -> ConversionTask
  background,   \* BackgroundTasks of answered requests, not yet run
  batch_tasks,  \* api.batch_tasks: batch id -> BatchTaskStatus
  scheduled,    \* asyncio tasks created for process_batch_conversion, not yet run
  fs,           \* the files that exist: path -> content
  frame,        \* the coroutine / method that is running, and its position
  response,     \* what the last finished request returned
  nextTask,     \* next fresh task id
  nextBatch,    \* next fresh batch id
  converting    \* convert_file calls that were entered and have not returned

vars == <<tasks, background, batch_tasks, scheduled, fs, frame, response, nextTask, nextBatch,
          converting>>

Idle == [fn |-> "idle"]

LoopFree_Always(fr) == TRUE

\* Every handler, background task and batch run is a coroutine of the one
\* event loop, and none of them awaits between its first and last statement:
\* the loop starts the next one only when no other is running.
LoopFree(fr) == fr = Idle
NoResponse == [code |-> 0, of |-> "none"]

EmptyMap == [x \in {} |-> NULL]

InitFs == [p \in {LibInput(u) : u \in NamedUploads} |->
             (CHOOSE u \in NamedUploads : LibInput(u) = p).content]

Init ==
  /\ tasks = EmptyMap
  /\ background = {}
  /\ batch_tasks = EmptyMap
  /\ scheduled = {}
  /\ fs = InitFs
  /\ frame = Idle
  /\ response = NoResponse
  /\ nextTask = 1
  /\ nextBatch = 1
  /\ converting = 0


\* ------------------------------------------------------------ POST /convert
\* f".{output_format.lstrip('.')}"
DotFormat(output_format) ==
  CASE output_format = "mp4" -> ".mp4"
    [] output_format = "jpg" -> ".jpg"
    [] output_format = "pdf" -> ".pdf"
    [] OTHER -> ".bin"

\* request.<category>_options.dict(exclude_none=True) with the models' defaults
CategoryOptions(category) ==
  CASE category = "video" ->
         [codec |-> "libx264", crf |-> 23, preset |-> "medium",
          audio_codec |-> "aac", audio_bitrate |-> "128k"]
    [] category = "image" -> [quality |-> 85, auto_orient |-> TRUE, compress_level |-> 6]
    [] category = "audio" -> [bitrate |-> 128]
    [] OTHER -> EmptyMap

\* one perform_conversion call handed to BackgroundTasks.add_task
Call(task_id, input_file, output_file, options) ==
  [task_id |-> task_id, input_file |-> input_file, output_file |-> output_file,
   options |-> options]

\* api.convert_file, the handler of POST /convert
ConvertRequest(u, output_format) ==
  /\ LoopFree(frame)
  /\ IF u.stem = "" /\ u.suffix = ""
     THEN \* "No file provided", re-raised by the handler's except as 400
          /\ response' = [code |-> 400, of |-> "convert"]
          /\ UNCHANGED <<tasks, background, fs, nextTask>>
     ELSE /\ nextTask <= MaxTasks
          /\ LET task_id == nextTask
                 input_file == TempPath(<<"task", task_id>>, "in", u.suffix)
                 output_file == TempPath(<<"task", task_id>>, "out", DotFormat(output_format))
                 options == CategoryOptions(get_file_category(input_file))
             IN /\ fs' = WriteFile(WriteFile(fs, input_file, u.content), output_file, "empty")
                /\ tasks' = create_conversion_task(tasks, task_id, input_file, output_file, options)
                /\ background' = background \cup {<<Call(task_id, input_file, output_file, options)>>}
                /\ response' = [code |-> 200, of |-> "convert", task_id |-> task_id,
                                status |-> "pending"]
                /\ nextTask' = nextTask + 1
  /\ UNCHANGED <<batch_tasks, scheduled, frame, nextBatch>>
  /\ UNCHANGED converting

\* ------------------------------------------------------------ perform_conversion
\* the event loop starts the background tasks of one answered request
PerformBegin ==
  /\ LoopFree(frame)
  /\ \E q \in background :
       /\ background' = background \ {q}
       /\ frame' = [fn |-> "perform_conversion", pc |-> "mark", call |-> Head(q),
                    rest |-> Tail(q), result |-> Return(FALSE)]
  /\ UNCHANGED <<tasks, batch_tasks, scheduled, fs, response, nextTask, nextBatch>>
  /\ UNCHANGED converting

\* mutant of SetStatus: the status is written to every record of the registry
SetStatus_Everywhere(reg, task_id, status) ==
  [t \in DOMAIN reg |-> [reg[t] EXCEPT !.status = status]]

SetStatus(reg, task_id, status) ==
  [reg EXCEPT ![task_id].status = status]

\* mutant of MarkProcessing: a record that is gone is put back
MarkProcessing_Recreates(reg, task_id) ==
  [t \in DOMAIN reg \cup {task_id} |->
     IF t \in DOMAIN reg /\ t # task_id THEN reg[t]
     ELSE [ task_id |-> task_id, input_file |-> NULL, output_file |-> NULL,
            input_format |-> NULL, output_format |-> NULL, status |-> PROCESSING,
            created_at |-> "now", completed_at |-> NULL, error_message |-> NULL,
            options |-> NULL ]]

\* api.py 335-336
MarkProcessing(reg, task_id) ==
  IF task_id \in DOMAIN reg THEN SetStatus(reg, task_id, PROCESSING) ELSE reg

PerformMark ==
  /\ frame.fn = "perform_conversion" /\ frame.pc = "mark"
  /\ tasks' = MarkProcessing(tasks, frame.call.task_id)
  /\ frame' = [frame EXCEPT !.pc = "convert"]
  /\ UNCHANGED <<background, batch_tasks, scheduled, fs, response, nextTask, nextBatch>>
  /\ converting' = converting + 1

\* api.py 339
PerformConvert ==
  /\ frame.fn = "perform_conversion" /\ frame.pc = "convert"
  /\ frame' = [frame EXCEPT !.pc = "update",
                 !.result = convert_file(fs, frame.call.input_file, frame.call.output_file)]
  /\ fs' = AfterConvert(fs, frame.call.input_file, frame.call.output_file)
  /\ UNCHANGED <<tasks, background, batch_tasks, scheduled, response, nextTask, nextBatch>>
  /\ converting' = converting - 1

\* mutants of RecordOutcome: a failure recorded without its message; a
\* failure not recorded at all
RecordOutcome_NoMessage(reg, task_id, result) ==
  IF task_id \in DOMAIN reg
  THEN [reg EXCEPT ![task_id].status = IF Succeeded(result) THEN COMPLETED ELSE FAILED]
  ELSE reg

RecordOutcome_SuccessOnly(reg, task_id, result) ==
  IF task_id \in DOMAIN reg /\ Succeeded(result)
  THEN [reg EXCEPT ![task_id].status = COMPLETED]
  ELSE reg

\* api.py 341-351: the call returned (342-345) or raised (347-351)
RecordOutcome(reg, task_id, result) ==
  IF task_id \notin DOMAIN reg THEN reg
  ELSE IF result.kind = "raise"
  THEN [reg EXCEPT ![task_id].status = FAILED,
                   ![task_id].error_message = result.message]
  ELSE [reg EXCEPT ![task_id].status = IF result.value THEN COMPLETED ELSE FAILED,
                   ![task_id].error_message =
                       IF result.value THEN reg[task_id].error_message
                       ELSE "Conversion failed"]

PerformUpdate ==
  /\ frame.fn = "perform_conversion" /\ frame.pc = "update"
  /\ tasks' = RecordOutcome(tasks, frame.call.task_id, frame.result)
  /\ frame' = IF frame.rest = <<>> THEN Idle
              ELSE [frame EXCEPT !.pc = "mark", !.call = Head(frame.rest),
                                 !.rest = Tail(frame.rest), !.result = Return(FALSE)]
  /\ UNCHANGED <<background, batch_tasks, scheduled, fs, response, nextTask, nextBatch>>
  /\ UNCHANGED converting

\* ------------------------------------------------------------ GET /task/{task_id}
TaskIds == 1..MaxTasks

GetTaskStatus(task_id) ==
  /\ LoopFree(frame)
  /\ response' = IF task_id \in DOMAIN tasks
                 THEN [code |-> 200, of |-> "get_task_status", task |-> tasks[task_id]]
                 ELSE [code |-> 404, of |-> "get_task_status", task_id |-> task_id]
  /\ UNCHANGED <<tasks, background, batch_tasks, scheduled, fs, frame, nextTask, nextBatch>>
  /\ UNCHANGED converting

\* ------------------------------------------------------------ GET /download/{task_id}
DownloadConvertedFile_NotCompleted(task_id) ==
  /\ LoopFree(frame)
  /\ response' =
       IF task_id \notin DOMAIN tasks \/ tasks[task_id].status # COMPLETED
       THEN [code |-> 400, of |-> "download_converted_file", task_id |-> task_id,
             detail |-> "Conversion not completed"]
       ELSE [code |-> 200, of |-> "download_converted_file", task_id |-> task_id,
             file |-> tasks[task_id].output_file]
  /\ UNCHANGED <<tasks, background, batch_tasks, scheduled, fs, frame, nextTask, nextBatch,
                 converting>>

DownloadConvertedFile_AnyStatus(task_id) ==
  /\ LoopFree(frame)
  /\ response' =
       IF task_id \notin DOMAIN tasks
       THEN [code |-> 404, of |-> "download_converted_file", task_id |-> task_id,
             detail |-> "Task not found"]
       ELSE IF ~Exists(fs, tasks[task_id].output_file)
       THEN [code |-> 404, of |-> "download_converted_file", task_id |-> task_id,
             detail |-> "Output file not found"]
       ELSE [code |-> 200, of |-> "download_converted_file", task_id |-> task_id,
             file |-> tasks[task_id].output_file]
  /\ UNCHANGED <<tasks, background, batch_tasks, scheduled, fs, frame, nextTask, nextBatch,
                 converting>>

\* api.download_converted_file
DownloadConvertedFile(task_id) ==
  /\ LoopFree(frame)
  /\ response' =
       IF task_id \notin DOMAIN tasks
       THEN [code |-> 404, of |-> "download_converted_file", task_id |-> task_id,
             detail |-> "Task not found"]
       ELSE IF tasks[task_id].status # COMPLETED
       THEN [code |-> 400, of |-> "download_converted_file", task_id |-> task_id,
             detail |-> "Conversion not completed"]
       ELSE IF ~Exists(fs, tasks[task_id].output_file)
       THEN [code |-> 404, of |-> "download_converted_file", task_id |-> task_id,
             detail |-> "Output file not found"]
       ELSE [code |-> 200, of |-> "download_converted_file", task_id |-> task_id,
             file |-> tasks[task_id].output_file]
  /\ UNCHANGED <<tasks, background, batch_tasks, scheduled, fs, frame, nextTask, nextBatch,
                 converting>>

\* ------------------------------------------------------------ DELETE /task/{task_id}
CancelTask_KeepsOutput(task_id) ==
  /\ LoopFree(frame)
  /\ IF task_id \in DOMAIN tasks
     THEN /\ fs' = Unlink(fs, {tasks[task_id].input_file})
          /\ tasks' = [t \in DOMAIN tasks \ {task_id} |-> tasks[t]]
          /\ response' = [code |-> 200, of |-> "cancel_task", task_id |-> task_id]
     ELSE /\ response' = [code |-> 404, of |-> "cancel_task", task_id |-> task_id]
          /\ UNCHANGED <<tasks, fs>>
  /\ UNCHANGED <<background, batch_tasks, scheduled, frame, nextTask, nextBatch>>
  /\ UNCHANGED converting

\* api.cancel_task
CancelTask(task_id) ==
  /\ LoopFree(frame)
  /\ IF task_id \in DOMAIN tasks
     THEN /\ fs' = Unlink(fs, {tasks[task_id].input_file, tasks[task_id].output_file})
          /\ tasks' = [t \in DOMAIN tasks \ {task_id} |-> tasks[t]]
          /\ response' = [code |-> 200, of |-> "cancel_task", task_id |-> task_id]
     ELSE /\ response' = [code |-> 404, of |-> "cancel_task", task_id |-> task_id]
          /\ UNCHANGED <<tasks, fs>>
  /\ UNCHANGED <<background, batch_tasks, scheduled, frame, nextTask, nextBatch>>
  /\ UNCHANGED converting

\* ------------------------------------------------------------ FileConverter.batch_convert
\* file_pairs lists a caller of the library can pass
RECURSIVE SeqsUpTo(_, _)
SeqsUpTo(S, n) ==
  IF n = 0 THEN {<<>>}
  ELSE LET shorter == SeqsUpTo(S, n - 1) IN
       shorter \cup {Append(s, x) : s \in {t \in shorter : Len(t) = n - 1}, x \in S}

FilePairs == {[i \in DOMAIN us |-> <<LibInput(us[i]), LibOutput(us[i])>>] :
                us \in SeqsUpTo(NamedUploads, MaxLibPairs) \ {<<>>}}

BatchConvertCall(file_pairs) ==
  /\ LoopFree(frame)
  /\ nextTask + Len(file_pairs) - 1 <= MaxTasks
  /\ frame' = [fn |-> "batch_convert", pc |-> "create", pairs |-> file_pairs,
               task_id |-> 0, success |-> FALSE]
  /\ UNCHANGED <<tasks, background, batch_tasks, scheduled, fs, response, nextTask, nextBatch>>
  /\ UNCHANGED converting

\* converter.py 584; options is None, so the task stores {}
BatchConvertCreate ==
  /\ frame.fn = "batch_convert" /\ frame.pc = "create"
  /\ LET pair == Head(frame.pairs) IN
       /\ tasks' = create_conversion_task(tasks, nextTask, pair[1], pair[2], EmptyMap)
       /\ frame' = [frame EXCEPT !.pc = "convert", !.task_id = nextTask]
  /\ nextTask' = nextTask + 1
  /\ UNCHANGED <<background, batch_tasks, scheduled, fs, response, nextBatch>>
  /\ converting' = converting + 1

\* converter.py 585
BatchConvertConvert ==
  /\ frame.fn = "batch_convert" /\ frame.pc = "convert"
  /\ LET pair == Head(frame.pairs)
         result == convert_file(fs, pair[1], pair[2])
     IN /\ frame' = IF result.kind = "raise"
                    THEN Idle  \* the exception leaves batch_convert
                    ELSE [frame EXCEPT !.pc = "update", !.success = result.value]
        /\ fs' = AfterConvert(fs, pair[1], pair[2])
  /\ UNCHANGED <<tasks, background, batch_tasks, scheduled, response, nextTask, nextBatch>>
  /\ converting' = converting - 1

\* converter.py 588-590
BatchConvertRecord(reg, task_id, success) ==
  IF task_id \in DOMAIN reg
  THEN [reg EXCEPT ![task_id].status = IF success THEN COMPLETED ELSE FAILED,
                   ![task_id].completed_at = "now"]
  ELSE reg

BatchConvertUpdate ==
  /\ frame.fn = "batch_convert" /\ frame.pc = "update"
  /\ tasks' = BatchConvertRecord(tasks, frame.task_id, frame.success)
  /\ frame' = IF Tail(frame.pairs) = <<>> THEN Idle
              ELSE [frame EXCEPT !.pc = "create", !.pairs = Tail(frame.pairs)]
  /\ UNCHANGED <<background, batch_tasks, scheduled, fs, response, nextTask, nextBatch>>
  /\ UNCHANGED converting

\* ------------------------------------------------------------ the task registry
NextTasks ==
  \/ \E u \in Uploads, f \in OutputFormats : ConvertRequest(u, f)
  \/ PerformBegin
  \/ PerformMark
  \/ PerformConvert
  \/ PerformUpdate
  \/ \E t \in TaskIds : GetTaskStatus(t)
  \/ \E t \in TaskIds : CancelTask(t)
  \/ \E ps \in FilePairs : BatchConvertCall(ps)
  \/ BatchConvertCreate
  \/ BatchConvertConvert
  \/ BatchConvertUpdate

SpecTasks == Init /\ [][NextTasks]_vars


\* ------------------------------------------------------------ POST /convert-batch
BatchUploads == {u \in Uploads : u.suffix \in {".png", ".MKV"}}
LongUploads == {u \in Uploads : u.suffix = ".png"}
BatchOutputFormats == {"mp4"}
OptionStrings == {NULL, "{}", "{bad"}

\* the file lists of the requests: every mix up to MaxVaried files, and one
\* file repeated up to MaxRequestFiles times
BatchRequests ==
  SeqsUpTo(BatchUploads, MaxVaried)
    \cup {[i \in 1..n |-> u] : n \in (MaxVaried + 1)..MaxRequestFiles, u \in LongUploads}

\* json.loads on the option strings of the model: "ok" with the parsed dict,
\* or JSONDecodeError
json_loads(text) ==
  CASE text = "{}" -> [ok |-> TRUE, value |-> EmptyMap]
    [] text = "{video_options: {codec: libx265, preset: fast, audio_codec: mp3}}" ->
         [ok |-> TRUE,
          value |-> [video_options |->
                       [codec |-> "libx265", preset |-> "fast", audio_codec |-> "mp3"]]]
    [] OTHER -> [ok |-> FALSE, value |-> EmptyMap]

BatchTaskId(batch_id, i) == <<batch_id, i>>

NewBatchTask_OneBased(batch_id, i, u, output_format) ==
  [ task_id |-> BatchTaskId(batch_id, i + 1),
    status |-> PENDING,
    input_file |-> TempPath(<<"batch", batch_id, i>>, "in", u.suffix),
    output_file |-> TempPath(<<"batch", batch_id, i>>, "out", DotFormat(output_format)),
    input_format |-> Lower(u.suffix),
    output_format |-> output_format,
    created_at |-> "now",
    completed_at |-> NULL,
    error_message |-> NULL ]

\* TaskStatus as convert_batch builds it for files[i + 1] (i is 0-based)
NewBatchTask(batch_id, i, u, output_format) ==
  [ task_id |-> BatchTaskId(batch_id, i),
    status |-> PENDING,
    input_file |-> TempPath(<<"batch", batch_id, i>>, "in", u.suffix),
    output_file |-> TempPath(<<"batch", batch_id, i>>, "out", DotFormat(output_format)),
    input_format |-> Lower(u.suffix),
    output_format |-> output_format,
    created_at |-> "now",
    completed_at |-> NULL,
    error_message |-> NULL ]

\* BatchTaskStatus as convert_batch builds it (api.py 651-659)
NewBatch(batch_id, files, output_format) ==
  [ batch_id |-> batch_id,
    total_files |-> Len(files),
    completed_files |-> 0,
    failed_files |-> 0,
    overall_progress |-> 0,
    tasks |-> [k \in 1..Len(files) |-> NewBatchTask(batch_id, k - 1, files[k], output_format)],
    created_at |-> "now",
    completed_at |-> NULL ]

\* the staged input and the (empty) output temp file of every file of the batch
StageBatch(fsys, batch) ==
  LET ins == {batch.tasks[k].input_file : k \in 1..Len(batch.tasks)}
      outs == {batch.tasks[k].output_file : k \in 1..Len(batch.tasks)} IN
  [p \in DOMAIN fsys \cup ins \cup outs |->
     IF p \in ins THEN "staged" ELSE IF p \in outs THEN "empty" ELSE fsys[p]]

\* mutant of TooManyFiles: the limit off by one
TooManyFiles_OffByOne(files) == Len(files) > MaxBatchFiles + 1

\* api.py 587: the size check of convert_batch
TooManyFiles(files) == Len(files) > MaxBatchFiles

\* api.convert_batch, the handler of POST /convert-batch
ConvertBatch(files, output_format, options) ==
  /\ LoopFree(frame)
  /\ IF files = <<>>
     THEN /\ response' = [code |-> 400, of |-> "convert_batch",
                          detail |-> "Nenhum arquivo enviado"]
          /\ UNCHANGED <<batch_tasks, scheduled, fs, nextBatch>>
     ELSE IF TooManyFiles(files)
     THEN /\ response' = [code |-> 400, of |-> "convert_batch",
                          detail |-> "Maximo 10 arquivos por lote"]
          /\ UNCHANGED <<batch_tasks, scheduled, fs, nextBatch>>
     ELSE IF options # NULL /\ ~json_loads(options).ok
     THEN /\ response' = [code |-> 400, of |-> "convert_batch",
                          detail |-> "Opcoes JSON invalidas"]
          /\ UNCHANGED <<batch_tasks, scheduled, fs, nextBatch>>
     ELSE /\ nextBatch <= MaxBatches
          /\ LET batch_id == nextBatch
                 parsed_options == IF options = NULL THEN EmptyMap ELSE json_loads(options).value
                 batch_status == NewBatch(batch_id, files, output_format)
                 staged == StageBatch(fs, batch_status)
             IN /\ fs' = [p \in DOMAIN staged |->
                            IF \E k \in 1..Len(files) : batch_status.tasks[k].input_file = p
                            THEN files[CHOOSE k \in 1..Len(files) :
                                         batch_status.tasks[k].input_file = p].content
                            ELSE staged[p]]
                /\ batch_tasks' = [b \in DOMAIN batch_tasks \cup {batch_id} |->
                                     IF b = batch_id THEN batch_status ELSE batch_tasks[b]]
                /\ scheduled' = scheduled \cup {[batch_id |-> batch_id, options |-> parsed_options]}
                /\ response' = [code |-> 200, of |-> "convert_batch", batch |-> batch_status]
                /\ nextBatch' = nextBatch + 1
  /\ UNCHANGED <<tasks, background, frame, nextTask>>
  /\ UNCHANGED converting

\* ------------------------------------------------------------ process_batch_conversion
\* the event loop starts a created asyncio task (api.py 682-689)
\* mutant of BatchFrame: the run starts without looking the batch up
BatchFrame_NoLookup(table, s) ==
  [fn |-> "process_batch_conversion", pc |-> "before",
   batch_id |-> s.batch_id, options |-> s.options,
   i |-> 0, completed |-> 0, failed |-> 0]

\* api.py 682-689: `if not batch: return`, else the loop starts at i = 0
BatchFrame(table, s) ==
  IF s.batch_id \in DOMAIN table
  THEN [fn |-> "process_batch_conversion", pc |-> "before",
        batch_id |-> s.batch_id, options |-> s.options,
        i |-> 0, completed |-> 0, failed |-> 0]
  ELSE Idle

BatchBegin ==
  /\ LoopFree(frame)
  /\ \E s \in scheduled :
       /\ scheduled' = scheduled \ {s}
       /\ frame' = BatchFrame(batch_tasks, s)
  /\ UNCHANGED <<tasks, background, batch_tasks, fs, response, nextTask, nextBatch>>
  /\ UNCHANGED converting

Progress_OfNext(i, total_files) == ((i + 1) * 100) \div total_files

\* int((i / batch.total_files) * 100)
Progress(i, total_files) == (i * 100) \div total_files

BeforeTask_MarksAll(batch, i) ==
  [batch EXCEPT !.tasks = [k \in 1..Len(@) |->
                             IF k > i THEN [@[k] EXCEPT !.status = PROCESSING] ELSE @[k]],
                !.overall_progress = Progress(i, batch.total_files)]

\* api.py 697-698
BeforeTask(batch, i) ==
  [batch EXCEPT !.tasks[i + 1].status = PROCESSING,
                !.overall_progress = Progress(i, batch.total_files)]

BatchBefore ==
  /\ frame.fn = "process_batch_conversion" /\ frame.pc = "before"
  /\ batch_tasks' = [batch_tasks EXCEPT ![frame.batch_id] = BeforeTask(@, frame.i)]
  /\ frame' = [frame EXCEPT !.pc = "call"]
  /\ UNCHANGED <<tasks, background, scheduled, fs, response, nextTask, nextBatch>>
  /\ converting' = converting + 1

\* the parameters FileConverter.convert_file declares (converter.py 288-289)
ConvertFileParameters == {"input_file", "output_file", "options"}

\* the keyword arguments of the call at api.py 701-706
BatchCallKeywords == {"input_file", "output_file", "output_format", "options"}

\* Python binds a call's keywords to the parameters, or raises TypeError
Binds(parameters, keywords) == keywords \subseteq parameters

TypeErrorMessage == "convert_file() got an unexpected keyword argument 'output_format'"

\* api.py 701-706: what the call of convert_file does for a task of a batch
BatchCallResult(fsys, task) ==
  IF Binds(ConvertFileParameters, BatchCallKeywords)
  THEN convert_file(fsys, task.input_file, task.output_file)
  ELSE Raise(TypeErrorMessage)

\* api.py 708-711: the call returned; its result is not read
TaskSucceeded(batch, i) ==
  [batch EXCEPT !.tasks[i + 1].status = COMPLETED,
                !.tasks[i + 1].completed_at = "now"]

\* api.py 717-720
TaskRaised(batch, i, message) ==
  [batch EXCEPT !.tasks[i + 1].status = FAILED,
                !.tasks[i + 1].error_message = message,
                !.tasks[i + 1].completed_at = "now"]

BatchCall_StopsAtFailure ==
  /\ frame.fn = "process_batch_conversion" /\ frame.pc = "call"
  /\ LET batch == batch_tasks[frame.batch_id]
         task == batch.tasks[frame.i + 1]
         last == frame.i + 1 = Len(batch.tasks)
         result == BatchCallResult(fs, task)
     IN IF result.kind = "raise"
        THEN /\ batch_tasks' = [batch_tasks EXCEPT
                                  ![frame.batch_id] = TaskRaised(@, frame.i, result.message)]
             /\ fs' = fs
             /\ frame' = [frame EXCEPT !.failed = @ + 1, !.i = @ + 1, !.pc = "final"]
        ELSE /\ batch_tasks' = [batch_tasks EXCEPT ![frame.batch_id] = TaskSucceeded(@, frame.i)]
             /\ fs' = AfterConvert(fs, task.input_file, task.output_file)
             /\ frame' = [frame EXCEPT !.completed = @ + 1, !.i = @ + 1,
                                       !.pc = IF last THEN "final" ELSE "before"]
  /\ UNCHANGED <<tasks, background, scheduled, response, nextTask, nextBatch>>
  /\ converting' = converting - 1

\* api.py 700-722: the call, and the branch that records how it ended
BatchCall ==
  /\ frame.fn = "process_batch_conversion" /\ frame.pc = "call"
  /\ LET batch == batch_tasks[frame.batch_id]
         task == batch.tasks[frame.i + 1]
         last == frame.i + 1 = Len(batch.tasks)
         result == BatchCallResult(fs, task)
     IN IF result.kind = "raise"
        THEN /\ batch_tasks' = [batch_tasks EXCEPT
                                  ![frame.batch_id] = TaskRaised(@, frame.i, result.message)]
             /\ fs' = fs
             /\ frame' = [frame EXCEPT !.failed = @ + 1, !.i = @ + 1,
                                       !.pc = IF last THEN "final" ELSE "before"]
        ELSE /\ batch_tasks' = [batch_tasks EXCEPT ![frame.batch_id] = TaskSucceeded(@, frame.i)]
             /\ fs' = AfterConvert(fs, task.input_file, task.output_file)
             /\ frame' = [frame EXCEPT !.completed = @ + 1, !.i = @ + 1,
                                       !.pc = IF last THEN "final" ELSE "before"]
  /\ UNCHANGED <<tasks, background, scheduled, response, nextTask, nextBatch>>
  /\ converting' = converting - 1

\* mutant of FinishBatch: the counters written, the progress left as it was
FinishBatch_StaleProgress(batch, completed, failed) ==
  [batch EXCEPT !.completed_files = completed,
                !.failed_files = failed,
                !.completed_at = "now"]

FinishBatch_CountsSwapped(batch, completed, failed) ==
  [batch EXCEPT !.completed_files = failed,
                !.failed_files = completed,
                !.overall_progress = 100,
                !.completed_at = "now"]

\* api.py 725-728
FinishBatch(batch, completed, failed) ==
  [batch EXCEPT !.completed_files = completed,
                !.failed_files = failed,
                !.overall_progress = 100,
                !.completed_at = "now"]

BatchFinal ==
  /\ frame.fn = "process_batch_conversion" /\ frame.pc = "final"
  /\ batch_tasks' = [batch_tasks EXCEPT
                       ![frame.batch_id] = FinishBatch(@, frame.completed, frame.failed)]
  /\ frame' = Idle
  /\ UNCHANGED <<tasks, background, scheduled, fs, response, nextTask, nextBatch>>
  /\ UNCHANGED converting

\* ------------------------------------------------------------ GET /batch/{batch_id}
BatchIds == 1..MaxBatches

GetBatchStatus(batch_id) ==
  /\ LoopFree(frame)
  /\ response' = IF batch_id \in DOMAIN batch_tasks
                 THEN [code |-> 200, of |-> "get_batch_status", batch |-> batch_tasks[batch_id]]
                 ELSE [code |-> 404, of |-> "get_batch_status", batch_id |-> batch_id]
  /\ UNCHANGED <<tasks, background, batch_tasks, scheduled, fs, frame, nextTask, nextBatch>>
  /\ UNCHANGED converting

\* ------------------------------------------------------------ GET /batch/{batch_id}/download
\* mutant of NothingConverted: the wrong counter tested
NothingConverted_WrongCounter(batch) == batch.failed_files = 0

\* api.py 766
NothingConverted(batch) == batch.completed_files = 0

\* api.py 777-783: the tasks whose output goes into the ZIP
ZipEntries(fsys, batch) ==
  {k \in 1..Len(batch.tasks) :
     batch.tasks[k].status = COMPLETED /\ Exists(fsys, batch.tasks[k].output_file)}

DownloadBatchResults(batch_id) ==
  /\ LoopFree(frame)
  /\ response' =
       IF batch_id \notin DOMAIN batch_tasks
       THEN [code |-> 404, of |-> "download_batch_results", batch_id |-> batch_id]
       ELSE IF NothingConverted(batch_tasks[batch_id])
       THEN [code |-> 400, of |-> "download_batch_results", batch_id |-> batch_id]
       ELSE [code |-> 200, of |-> "download_batch_results", batch_id |-> batch_id,
             entries |-> ZipEntries(fs, batch_tasks[batch_id])]
  /\ UNCHANGED <<tasks, background, batch_tasks, scheduled, fs, frame, nextTask, nextBatch>>
  /\ UNCHANGED converting

\* ------------------------------------------------------------ DELETE /batch/{batch_id}
CancelBatch(batch_id) ==
  /\ LoopFree(frame)
  /\ IF batch_id \in DOMAIN batch_tasks
     THEN /\ LET batch == batch_tasks[batch_id] IN
               fs' = Unlink(fs, {batch.tasks[k].input_file : k \in 1..Len(batch.tasks)}
                                  \cup {batch.tasks[k].output_file : k \in 1..Len(batch.tasks)})
          /\ batch_tasks' = [b \in DOMAIN batch_tasks \ {batch_id} |-> batch_tasks[b]]
          /\ response' = [code |-> 200, of |-> "cancel_batch", batch_id |-> batch_id]
     ELSE /\ response' = [code |-> 404, of |-> "cancel_batch", batch_id |-> batch_id]
          /\ UNCHANGED <<batch_tasks, fs>>
  /\ UNCHANGED <<tasks, background, scheduled, frame, nextTask, nextBatch>>
  /\ UNCHANGED converting

\* ------------------------------------------------------------ the batch coordinator
NextBatches ==
  \/ \E files \in BatchRequests, f \in BatchOutputFormats, o \in OptionStrings :
       ConvertBatch(files, f, o)
  \/ BatchBegin
  \/ BatchBefore
  \/ BatchCall
  \/ BatchFinal
  \/ \E b \in BatchIds : GetBatchStatus(b)
  \/ \E b \in BatchIds : DownloadBatchResults(b)
  \/ \E b \in BatchIds : CancelBatch(b)

SpecBatches == Init /\ [][NextBatches]_vars

\* the whole service
\* ------------------------------------------------------------ POST /convert-simple
SimpleOutputFormats == {"mp4", "jpg"}

\* the options form field: absent, not JSON, or a JSON object (written here
\* without its quotation marks)
SimpleOptionStrings ==
  {NULL, "{bad", "{video_options: {codec: libx265, preset: fast, audio_codec: mp3}}"}

\* dict.get(key, default)
Get(d, key, default) == IF key \in DOMAIN d THEN d[key] ELSE default

\* api.py 189-197: a string that does not parse is logged and dropped
SimpleParsedOptions(options) ==
  IF options # NULL /\ json_loads(options).ok THEN json_loads(options).value ELSE EmptyMap

ForcedVideoOptions_CallerCodec(conversion_options) ==
  LET video_options == Get(conversion_options, "video_options", EmptyMap) IN
  [ codec |-> Get(video_options, "codec", "libx264"),
    crf |-> Get(video_options, "crf", 23),
    preset |-> Get(video_options, "preset", "medium"),
    audio_codec |-> "aac",
    audio_bitrate |-> "128k" ]

\* api.py 213-222
ForcedVideoOptions(conversion_options) ==
  LET video_options == Get(conversion_options, "video_options", EmptyMap) IN
  [ codec |-> "libx264",
    crf |-> Get(video_options, "crf", 23),
    preset |-> Get(video_options, "preset", "medium"),
    audio_codec |-> "aac",
    audio_bitrate |-> "128k" ]

\* api.py 212-230: the options convert_simple hands to converter.convert_file
FinalOptions(output_format, options) ==
  LET parsed == SimpleParsedOptions(options)
      conversion_options == IF Lower(output_format) = "mp4"
                            THEN [video_options |-> ForcedVideoOptions(parsed)]
                            ELSE parsed
  IN Get(conversion_options, "video_options", conversion_options)

\* tempfile.NamedTemporaryFile: a name no existing file has
SimpleSlots(fsys) == {p.owner[2] : p \in {q \in DOMAIN fsys : q.owner[1] = "simple"}}
FreshSlot(fsys) == CHOOSE n \in 1..(MaxSimple + 1) : n \notin SimpleSlots(fsys)

\* api.convert_simple up to the call of converter.convert_file (api.py 175-230)
ConvertSimple(u, output_format, options) ==
  /\ LoopFree(frame)
  /\ IF u.stem = "" /\ u.suffix = ""
     THEN \* the HTTPException(400) of line 187 is caught at line 250
          /\ response' = [code |-> 500, of |-> "convert_simple",
                          detail |-> "Conversion error: 400: No file provided"]
          /\ UNCHANGED <<fs, frame, converting>>
     ELSE /\ FreshSlot(fs) <= MaxSimple
          /\ LET n == FreshSlot(fs)
                 input_file == TempPath(<<"simple", n>>, "in", u.suffix)
                 output_file == TempPath(<<"simple", n>>, "out", DotFormat(output_format))
             IN /\ fs' = WriteFile(WriteFile(fs, input_file, u.content), output_file, "empty")
                /\ frame' = [fn |-> "convert_simple", pc |-> "convert",
                             input_file |-> input_file, output_file |-> output_file,
                             output_format |-> output_format, raw_options |-> options,
                             final_options |-> FinalOptions(output_format, options)]
          /\ converting' = converting + 1
          /\ UNCHANGED response
  /\ UNCHANGED <<tasks, background, batch_tasks, scheduled, nextTask, nextBatch>>

\* api.py 232-251: convert_file returns, the handler answers
ConvertSimpleConvert ==
  /\ frame.fn = "convert_simple" /\ frame.pc = "convert"
  /\ LET result == convert_file(fs, frame.input_file, frame.output_file)
         after == AfterConvert(fs, frame.input_file, frame.output_file)
     IN IF result.kind = "raise"
        THEN /\ fs' = after
             /\ response' = [code |-> 500, of |-> "convert_simple",
                             detail |-> "Conversion error"]
        ELSE IF ~result.value
        THEN /\ fs' = Unlink(after, {frame.input_file, frame.output_file})
             /\ response' = [code |-> 500, of |-> "convert_simple",
                             detail |-> "Conversion error: 500: Conversion failed"]
        ELSE /\ fs' = after
             /\ response' = [code |-> 200, of |-> "convert_simple",
                             file |-> frame.output_file]
  /\ frame' = Idle
  /\ converting' = converting - 1
  /\ UNCHANGED <<tasks, background, batch_tasks, scheduled, nextTask, nextBatch>>

\* ------------------------------------------------------------ POST /batch-convert
\* the file lists of the requests: files that can be staged, and a file
\* whose name ends in a suffix longer than a file name may be, alone and
\* after a file that can be staged; output_format keeps its default "pdf"
OverlongUpload == [stem |-> "y", suffix |-> ".overlong", content |-> "ok"]
BatchConvertFileLists ==
  (SeqsUpTo(LongUploads, MaxTasks) \ {<<>>})
    \cup {<<OverlongUpload>>} \cup {<<u, OverlongUpload>> : u \in LongUploads}

\* NamedTemporaryFile(delete=False, suffix=...) raises OSError for a suffix
\* that makes the file name too long
TempFileFails(suffix) == suffix = OverlongUpload.suffix

\* the number of files the loop gets through before one raises
StagedFiles(files) ==
  LET failing == {k \in 1..Len(files) : TempFileFails(files[k].suffix)}
  IN IF failing = {} THEN Len(files)
     ELSE (CHOOSE k \in failing : \A j \in failing : k <= j) - 1

\* api.batch_convert_files: each file in turn is staged, gets its task and
\* its perform_conversion call; the calls run in order after the response.
\* A file that raises ends the request with 400: the tasks of the files
\* before it stay in the registry and the calls added so far are dropped
\* with the response they were meant for.
BatchConvertFiles(files) ==
  /\ LoopFree(frame)
  /\ nextTask + StagedFiles(files) - 1 <= MaxTasks
  /\ LET staged == 1..StagedFiles(files)
         id(k) == nextTask + k - 1
         input_file(k) == TempPath(<<"task", id(k)>>, "in", files[k].suffix)
         output_file(k) == TempPath(<<"task", id(k)>>, "out", DotFormat("pdf"))
         new == {id(k) : k \in staged}
         ins == {input_file(k) : k \in staged}
         outs == {output_file(k) : k \in staged}
     IN /\ fs' = [p \in DOMAIN fs \cup ins \cup outs |->
                    IF p \in ins
                    THEN files[CHOOSE k \in staged : input_file(k) = p].content
                    ELSE IF p \in outs THEN "empty" ELSE fs[p]]
        /\ tasks' = [t \in DOMAIN tasks \cup new |->
                       IF t \in new
                       THEN NewTask(t, input_file(t - nextTask + 1),
                                    output_file(t - nextTask + 1), EmptyMap)
                       ELSE tasks[t]]
        /\ IF StagedFiles(files) = Len(files)
           THEN /\ background' = background \cup
                      {[k \in staged |->
                          Call(id(k), input_file(k), output_file(k), EmptyMap)]}
                /\ response' = [code |-> 200, of |-> "batch_convert_files",
                                task_ids |-> [k \in staged |-> id(k)]]
           ELSE /\ background' = background
                /\ response' = [code |-> 400, of |-> "batch_convert_files"]
  /\ nextTask' = nextTask + StagedFiles(files)
  /\ UNCHANGED <<batch_tasks, scheduled, frame, nextBatch, converting>>

\* ------------------------------------------------------------ lookups
\* tasks and batches are created and run, and looked up, downloaded and
\* cancelled by id
LookupBatchRequests == {<<u>> : u \in LongUploads}

NextLookups ==
  \/ \E u \in BatchUploads, f \in OutputFormats : ConvertRequest(u, f)
  \/ PerformBegin
  \/ PerformMark
  \/ PerformConvert
  \/ PerformUpdate
  \/ \E t \in TaskIds : GetTaskStatus(t)
  \/ \E t \in TaskIds : DownloadConvertedFile(t)
  \/ \E t \in TaskIds : CancelTask(t)
  \/ \E files \in LookupBatchRequests, f \in BatchOutputFormats : ConvertBatch(files, f, NULL)
  \/ BatchBegin
  \/ BatchBefore
  \/ BatchCall
  \/ BatchFinal
  \/ \E b \in BatchIds : GetBatchStatus(b)
  \/ \E b \in BatchIds : DownloadBatchResults(b)
  \/ \E b \in BatchIds : CancelBatch(b)

SpecLookups == Init /\ [][NextLookups]_vars

\* ------------------------------------------------------------ conversions
\* the four endpoints that start conversions, and the runs they start
CreationUploads == {u \in Uploads : u.suffix \in {".png", ""}}
CreationBatchRequests ==
  {<<>>} \cup {[i \in 1..n |-> u] : n \in {1, MaxRequestFiles}, u \in LongUploads}

NextConversions ==
  \/ \E u \in CreationUploads, f \in OutputFormats : ConvertRequest(u, f)
  \/ \E files \in BatchConvertFileLists : BatchConvertFiles(files)
  \/ \E u \in CreationUploads, f \in SimpleOutputFormats, o \in SimpleOptionStrings :
       ConvertSimple(u, f, o)
  \/ ConvertSimpleConvert
  \/ PerformBegin
  \/ PerformMark
  \/ PerformConvert
  \/ PerformUpdate
  \/ \E files \in CreationBatchRequests, f \in BatchOutputFormats, o \in OptionStrings :
       ConvertBatch(files, f, o)
  \/ BatchBegin
  \/ BatchBefore
  \/ BatchCall
  \/ BatchFinal

SpecConversions == Init /\ [][NextConversions]_vars

\* ------------------------------------------------------------ classification
\* the file names get_file_category is asked about: a suffix as it is
\* written, and the same suffix in lower case
ListedExtensions ==
  VideoExtensions \cup ImageExtensions \cup DocumentExtensions \cup AudioExtensions

FileNames ==
  {[suffix |-> e, folded |-> e] : e \in ListedExtensions \cup {"", ".unknownext", ".mp33", ".exe", ".gz"}}
    \cup {[suffix |-> ".MKV", folded |-> ".mkv"], [suffix |-> ".PNG", folded |-> ".png"],
          [suffix |-> ".Mp3", folded |-> ".mp3"], [suffix |-> ".DOCX", folded |-> ".docx"]}

\* a caller asks FileConverter.get_file_category for a path
Classify(name) ==
  /\ response' = [code |-> 200, of |-> "get_file_category", name |-> name,
                  category |-> get_file_category(TempPath(<<"probe">>, "in", name.suffix))]
  /\ UNCHANGED <<tasks, background, batch_tasks, scheduled, fs, frame, nextTask, nextBatch,
                 converting>>

NextClassify == \E name \in FileNames : Classify(name)

SpecClassify == Init /\ [][NextClassify]_vars

\* ------------------------------------------------------------ every action
Next == NextTasks \/ NextBatches \/ NextLookups \/ NextConversions \/ NextClassify

Spec == Init /\ [][Next]_vars


\* fairness: the event loop runs a coroutine it started up to its return
FairSpecTasks ==
  /\ SpecTasks
  /\ WF_vars(PerformMark)
  /\ WF_vars(PerformConvert)
  /\ WF_vars(PerformUpdate)

FairSpecBatches ==
  /\ SpecBatches
  /\ WF_vars(BatchBefore)
  /\ WF_vars(BatchCall)
  /\ WF_vars(BatchFinal)

\* ============================================================ claims
AllowedMoves ==
  {<<PENDING, PROCESSING>>, <<PROCESSING, COMPLETED>>, <<PROCESSING, FAILED>>}

\* C1: a registry task's status only moves Pending -> Processing ->
\* {Completed, Failed}: no step skips Processing, and a terminal status
\* never changes.
C1_StatusMovesForward ==
  [][\A t \in DOMAIN tasks \cap DOMAIN tasks' :
       tasks'[t].status # tasks[t].status
         => <<tasks[t].status, tasks'[t].status>> \in AllowedMoves]_vars

\* C2: a registry task has completed_at set if and only if its status is
\* Completed or Failed.
C2_CompletedAtIffTerminal ==
  \A t \in DOMAIN tasks :
    (tasks[t].completed_at # NULL) <=> (tasks[t].status \in Terminal)

\* C3: for every registry task and every batch task, error_message is
\* present if and only if the status is Failed.
C3_ErrorMessageIffFailed ==
  /\ \A t \in DOMAIN tasks :
       (tasks[t].error_message # NULL) <=> (tasks[t].status = FAILED)
  /\ \A b \in DOMAIN batch_tasks : \A k \in 1..Len(batch_tasks[b].tasks) :
       (batch_tasks[b].tasks[k].error_message # NULL)
         <=> (batch_tasks[b].tasks[k].status = FAILED)

\* the task ids whose perform_conversion is still to run or is running
AwaitingExecute ==
  UNION {{q[k].task_id : k \in 1..Len(q)} : q \in background}
    \cup (IF frame.fn = "perform_conversion"
          THEN {frame.call.task_id} \cup {frame.rest[k].task_id : k \in 1..Len(frame.rest)}
          ELSE {})

\* perform_conversion has run to its end for registry task t
Executed(t) ==
  /\ t \in DOMAIN tasks
  /\ tasks[t].input_file.owner[1] = "task"
  /\ t \notin AwaitingExecute

\* C4: once perform_conversion has finished for a task, the task is
\* Completed if the dispatcher returns true on its input, and Failed with a
\* non-empty error message if the dispatcher returns false or the tool
\* raises.
C4_OutcomeDecidesStatus ==
  \A t \in DOMAIN tasks :
    Executed(t) =>
      IF Succeeded(convert_file(fs, tasks[t].input_file, tasks[t].output_file))
      THEN tasks[t].status = COMPLETED
      ELSE tasks[t].status = FAILED /\ tasks[t].error_message \notin {NULL, ""}

C4_Witness ==
  \E t1, t2 \in DOMAIN tasks :
    /\ Executed(t1) /\ tasks[t1].status = COMPLETED
    /\ Executed(t2) /\ tasks[t2].status = FAILED
    /\ RunTool(fs, tasks[t2].input_file) = "raise"

\* C5: a task that is Processing eventually is Completed or Failed (or is
\* cancelled), whatever the dispatcher reports, and a terminal status is
\* never left: one terminal transition per task.
C5_ProcessingEnds ==
  /\ \A t \in TaskIds :
       (t \in DOMAIN tasks /\ tasks[t].status = PROCESSING)
         ~> (t \notin DOMAIN tasks \/ tasks[t].status \in Terminal)
  /\ [][\A t \in DOMAIN tasks \cap DOMAIN tasks' :
          tasks[t].status \in Terminal => tasks'[t].status = tasks[t].status]_vars

C5_Witness ==
  /\ frame.fn = "perform_conversion" /\ frame.pc = "update" /\ ~Succeeded(frame.result)
  /\ frame.call.task_id \in DOMAIN tasks
  /\ tasks[frame.call.task_id].status = PROCESSING

AllTerminal(batch) == \A k \in 1..Len(batch.tasks) : batch.tasks[k].status \in Terminal

BatchInvariant(batch) ==
  /\ batch.completed_files + batch.failed_files <= batch.total_files
  /\ (batch.overall_progress = 100) <=> AllTerminal(batch)
  /\ (batch.overall_progress = 100)
       <=> (batch.completed_files + batch.failed_files = batch.total_files)

\* C6: every batch a status reader gets (the answer of GET /batch/{id} and
\* of POST /convert-batch), and every batch a reader could get, has
\* completed_files + failed_files <= total_files and overall_progress = 100
\* exactly when all its tasks are terminal, the counters agreeing with the
\* progress.
C6_ReaderSeesBatchInvariant ==
  /\ (response.code = 200 /\ response.of \in {"get_batch_status", "convert_batch"})
       => BatchInvariant(response.batch)
  /\ frame = Idle => \A b \in DOMAIN batch_tasks : BatchInvariant(batch_tasks[b])

C6_Witness ==
  /\ response.code = 200 /\ response.of = "get_batch_status"
  /\ response.batch.overall_progress = 100
  /\ response.batch.failed_files > 0
  /\ response.batch.total_files > 1

\* the tasks of a batch whose conversion the dispatcher reports as done
Converts(batch) ==
  {k \in 1..Len(batch.tasks) :
     Succeeded(convert_file(fs, batch.tasks[k].input_file, batch.tasks[k].output_file))}

\* C7: when RunBatch has finished, completed_files is the number of tasks
\* whose conversion succeeds, failed_files the number whose conversion
\* fails, overall_progress is 100 and each task is Completed or Failed by
\* its own outcome.
C7_CountsFollowOutcomes ==
  \A b \in DOMAIN batch_tasks :
    LET batch == batch_tasks[b] IN
    batch.completed_at # NULL =>
      /\ batch.completed_files = Cardinality(Converts(batch))
      /\ batch.failed_files = batch.total_files - Cardinality(Converts(batch))
      /\ batch.overall_progress = 100
      /\ \A k \in 1..Len(batch.tasks) :
           batch.tasks[k].status = IF k \in Converts(batch) THEN COMPLETED ELSE FAILED

\* C8: a POST /convert-batch with more than 10 files answers 400 and leaves
\* the batch table, the task registry and the scheduled runs as they were.
C8_OversizedBatchRejected ==
  [][\A files \in BatchRequests, f \in BatchOutputFormats, o \in OptionStrings :
       (Len(files) > MaxBatchFiles /\ ConvertBatch(files, f, o))
         => /\ response'.code = 400
            /\ batch_tasks' = batch_tasks
            /\ tasks' = tasks
            /\ scheduled' = scheduled]_vars

C8_Witness ==
  /\ response.code = 400 /\ response.of = "convert_batch"
  /\ response.detail = "Maximo 10 arquivos por lote"
  /\ DOMAIN batch_tasks # {}

NoneCompleted(batch) == \A k \in 1..Len(batch.tasks) : batch.tasks[k].status # COMPLETED

\* C9: GET /batch/{id}/download on a batch none of whose tasks is Completed
\* answers 400, whenever it is asked.
C9_ArchiveNeedsCompleted ==
  [][\A b \in BatchIds :
       (b \in DOMAIN batch_tasks /\ NoneCompleted(batch_tasks[b]) /\ DownloadBatchResults(b))
         => response'.code = 400]_vars

C9_Witness ==
  /\ response.code = 400 /\ response.of = "download_batch_results"
  /\ response.batch_id \in DOMAIN batch_tasks
  /\ batch_tasks[response.batch_id].completed_at # NULL

C12_AbsentIdNotFound ==
  [][/\ \A t \in TaskIds :
          (t \notin DOMAIN tasks
             /\ (GetTaskStatus(t) \/ DownloadConvertedFile(t) \/ CancelTask(t)))
            => response'.code = 404 /\ tasks' = tasks /\ batch_tasks' = batch_tasks
     /\ \A b \in BatchIds :
          (b \notin DOMAIN batch_tasks
             /\ (GetBatchStatus(b) \/ DownloadBatchResults(b) \/ CancelBatch(b)))
            => response'.code = 404 /\ tasks' = tasks /\ batch_tasks' = batch_tasks]_vars

C12_Witness ==
  /\ response.code = 404 /\ response.of = "cancel_batch"
  /\ response.batch_id < nextBatch
  /\ \E t \in DOMAIN tasks : tasks[t].status = COMPLETED

\* C13: every call of create_conversion_task (from POST /convert and from
\* batch_convert) adds exactly one record under an id that was never used,
\* Pending, with no completion time and no error message, and leaves the
\* records already there as they were; GET /task on a registered id
\* answers with the record as the registry holds it.
C13_CreateAddsPendingTask ==
  [][LET new == DOMAIN tasks' \ DOMAIN tasks IN
     /\ ((\E u \in NamedUploads, f \in OutputFormats : ConvertRequest(u, f))
           \/ BatchConvertCreate)
          => Cardinality(new) = 1
     /\ new # {}
          => /\ \A t \in new :
                  /\ t >= nextTask
                  /\ tasks'[t].status = PENDING
                  /\ tasks'[t].completed_at = NULL
                  /\ tasks'[t].error_message = NULL
             /\ \A o \in DOMAIN tasks : o \in DOMAIN tasks' /\ tasks'[o] = tasks[o]
     /\ \A t \in DOMAIN tasks :
          GetTaskStatus(t) => response'.code = 200 /\ response'.task = tasks[t]]_vars

C13_Witness ==
  /\ response.code = 200 /\ response.of = "get_task_status"
  /\ response.task.status = PENDING
  /\ response.task.completed_at = NULL /\ response.task.error_message = NULL
  /\ \E o \in DOMAIN tasks : o < response.task.task_id /\ tasks[o].status = FAILED

\* C14: get_file_category answers for every file name, and its answer
\* depends only on the suffix with the letter case ignored: a suffix listed
\* for a category gives that category ("movie.MKV" is Video), every other
\* suffix, the empty one included, gives Unsupported.
C14_ClassifyByExtension ==
  response.of = "get_file_category" =>
    LET e == response.name.folded
        c == response.category IN
    /\ c \in {"video", "image", "document", "audio", "unsupported"}
    /\ e \in VideoExtensions => c = "video"
    /\ e \in ImageExtensions => c = "image"
    /\ e \in DocumentExtensions => c = "document"
    /\ e \in AudioExtensions => c = "audio"
    /\ e \notin ListedExtensions => c = "unsupported"

C14_Witness ==
  /\ response.of = "get_file_category"
  /\ response.name.suffix = ".MKV"
  /\ response.category = "video"

\* C15: however requests to /convert, /convert-simple, /batch-convert and
\* /convert-batch and the runs they start interleave, the number of
\* convert_file calls that were entered and have not returned never
\* exceeds MAX_CONCURRENT_CONVERSIONS.
C15_ConversionsWithinCap == converting <= MAX_CONCURRENT_CONVERSIONS

C15_Witness ==
  /\ converting = 1
  /\ frame.fn = "perform_conversion"
  /\ background # {}
  /\ scheduled # {}

\* C16: a run of process_batch_conversion that has started on a batch
\* eventually leaves the batch with overall_progress = 100 and completed_at
\* set, and when it does every task of the batch has been attempted and is
\* Completed or Failed: a failing task does not stop the run, and failures
\* show only in failed_files.
C16_BatchRunFinishes ==
  /\ \A b \in BatchIds :
       (frame.fn = "process_batch_conversion" /\ frame.batch_id = b)
         ~> (/\ b \in DOMAIN batch_tasks
             /\ batch_tasks[b].overall_progress = 100
             /\ batch_tasks[b].completed_at # NULL)
  /\ [][\A b \in DOMAIN batch_tasks \cap DOMAIN batch_tasks' :
          (batch_tasks[b].completed_at = NULL /\ batch_tasks'[b].completed_at # NULL)
            => /\ AllTerminal(batch_tasks'[b])
               /\ batch_tasks'[b].overall_progress = 100
               /\ batch_tasks'[b].failed_files
                    = Cardinality({k \in 1..Len(batch_tasks'[b].tasks) :
                                     batch_tasks'[b].tasks[k].status = FAILED})]_vars

C16_Witness ==
  \E b \in DOMAIN batch_tasks :
    /\ batch_tasks[b].completed_at # NULL
    /\ batch_tasks[b].overall_progress = 100
    /\ batch_tasks[b].total_files >= 2
    /\ batch_tasks[b].tasks[1].status = FAILED
    /\ batch_tasks[b].tasks[2].status \in Terminal

\* C17: FileConverter.convert_file always returns to its caller
\* (perform_conversion, batch_convert), and it returns false when the
\* external tool ends with a non-zero exit code and when the tool or the
\* category converter raises.
C17_DispatcherNeverRaises ==
  [][/\ PerformConvert
          => /\ frame'.result.kind = "return"
             /\ RunTool(fs, frame.call.input_file) # "ok" => frame'.result = Return(FALSE)
     /\ BatchConvertConvert
          => /\ frame'.fn = "batch_convert" /\ frame'.pc = "update"
             /\ RunTool(fs, Head(frame.pairs)[1]) # "ok" => ~frame'.success]_vars

C17_Witness ==
  /\ frame.fn = "perform_conversion" /\ frame.pc = "update"
  /\ RunTool(fs, frame.call.input_file) = "raise"
  /\ Exists(fs, frame.call.input_file)
  /\ frame.result = Return(FALSE)

\* C18: on an input whose category is Unsupported, convert_file returns
\* false and no tool runs (nothing is written, although the tool would
\* have accepted the bytes), and a registry task executed on such an input
\* ends Failed.
C18_UnsupportedFailsAtOnce ==
  [][/\ (PerformConvert /\ get_file_category(frame.call.input_file) = "unsupported")
          => frame'.result = Return(FALSE) /\ fs' = fs
     /\ \A t \in DOMAIN tasks' :
          (/\ t \in AwaitingExecute
           /\ t \notin AwaitingExecute'
           /\ get_file_category(tasks'[t].input_file) = "unsupported")
            => tasks'[t].status = FAILED]_vars

C18_Witness ==
  \E t \in DOMAIN tasks :
    /\ Executed(t)
    /\ get_file_category(tasks[t].input_file) = "unsupported"
    /\ RunTool(fs, tasks[t].input_file) = "ok"
    /\ tasks[t].status = FAILED
    /\ fs[tasks[t].output_file] = "empty"

\* the codec, preset and audio settings among the options handed to the
\* dispatcher
TranscoderSettings(options) ==
  [k \in {"codec", "preset", "audio_codec", "audio_bitrate"} |-> Get(options, k, NULL)]

Rejected ==
  /\ response'.code = 400
  /\ UNCHANGED <<tasks, batch_tasks, background, scheduled, frame, converting>>

Unnamed(u) == u.stem = "" /\ u.suffix = ""
Malformed(options) == options # NULL /\ ~json_loads(options).ok

\* C20: on /convert, /convert-simple and /convert-batch a request without
\* a file name, with options that are not JSON, or with no file or more
\* than 10 files in a batch is answered 400 at once, and no task, batch,
\* background run or conversion comes of it.
C20_InvalidRequestsRejected ==
  [][/\ \A u \in CreationUploads, f \in OutputFormats :
          (Unnamed(u) /\ ConvertRequest(u, f)) => Rejected
     /\ \A u \in CreationUploads, f \in SimpleOutputFormats, o \in SimpleOptionStrings :
          ((Unnamed(u) \/ Malformed(o)) /\ ConvertSimple(u, f, o)) => Rejected
     /\ \A files \in CreationBatchRequests, f \in BatchOutputFormats, o \in OptionStrings :
          ((files = <<>> \/ Len(files) > MaxBatchFiles \/ Malformed(o))
             /\ ConvertBatch(files, f, o)) => Rejected]_vars

\* C21: GET /download/{id} on a registered task hands out the output file
\* only when the task is Completed; on a task in any other status it
\* answers 400, and in every case it changes nothing but the response.
C21_DownloadOnlyCompleted ==
  [][\A t \in DOMAIN tasks :
       DownloadConvertedFile(t)
         => /\ response'.code = 200 => tasks[t].status = COMPLETED
            /\ tasks[t].status # COMPLETED => response'.code = 400
            /\ UNCHANGED <<tasks, background, batch_tasks, scheduled, fs, frame, converting>>]_vars

C21_Witness ==
  /\ response.code = 400 /\ response.of = "download_converted_file"
  /\ response.task_id \in DOMAIN tasks
  /\ tasks[response.task_id].status = FAILED
  /\ Exists(fs, tasks[response.task_id].output_file)
  /\ \E o \in DOMAIN tasks : tasks[o].status = PENDING

\* C22: every batch of the batch table has total_files equal to the number
\* of its tasks and its k-th task (0-based) carries the id <batch id>_k;
\* when POST /convert-batch creates it, the tasks are Pending and stand in
\* the order of the uploaded files; and neither the creation nor the run
\* of a batch puts a record into the task registry.
C22_BatchTasksKeyedByIndex ==
  /\ [](\A b \in DOMAIN batch_tasks :
          /\ batch_tasks[b].batch_id = b
          /\ batch_tasks[b].total_files = Len(batch_tasks[b].tasks)
          /\ \A k \in 1..Len(batch_tasks[b].tasks) :
               batch_tasks[b].tasks[k].task_id = BatchTaskId(b, k - 1))
  /\ [][\A files \in BatchRequests, f \in BatchOutputFormats, o \in OptionStrings :
          (ConvertBatch(files, f, o) /\ DOMAIN batch_tasks' # DOMAIN batch_tasks)
            => LET batch == batch_tasks'[nextBatch] IN
               /\ Len(batch.tasks) = Len(files)
               /\ \A k \in 1..Len(files) :
                    /\ batch.tasks[k].status = PENDING
                    /\ batch.tasks[k].input_file.suffix = files[k].suffix
                    /\ fs'[batch.tasks[k].input_file] = files[k].content]_vars
  /\ [](DOMAIN tasks = {})

C22_Witness ==
  \E b \in DOMAIN batch_tasks :
    /\ batch_tasks[b].total_files = 2
    /\ batch_tasks[b].tasks[1].input_format = ".mkv"
    /\ batch_tasks[b].tasks[2].input_format = ".png"
    /\ batch_tasks[b].tasks[2].task_id = BatchTaskId(b, 1)
    /\ batch_tasks[b].tasks[2].status = PENDING

\* C23: the step of process_batch_conversion that stands right before the
\* conversion of task i (0-based) of a batch of n tasks leaves that task
\* Processing and overall_progress = floor(i * 100 / n); the progress of a
\* batch never decreases, stays within 0..100, and is 100 when the run ends.
C23_ProgressFloorAndMonotone ==
  [][/\ BatchBefore
          => LET batch == batch_tasks'[frame.batch_id]
                 n == batch.total_files
                 p == batch.overall_progress IN
             /\ batch.tasks[frame.i + 1].status = PROCESSING
             /\ p * n <= frame.i * 100 /\ frame.i * 100 < (p + 1) * n
     /\ BatchFinal => batch_tasks'[frame.batch_id].overall_progress = 100
     /\ \A b \in DOMAIN batch_tasks \cap DOMAIN batch_tasks' :
          /\ batch_tasks'[b].overall_progress >= batch_tasks[b].overall_progress
          /\ batch_tasks'[b].overall_progress \in 0..100]_vars

C23_Witness ==
  /\ frame.fn = "process_batch_conversion" /\ frame.pc = "call" /\ frame.i = 2
  /\ batch_tasks[frame.batch_id].total_files = 3
  /\ batch_tasks[frame.batch_id].overall_progress = 66
  /\ batch_tasks[frame.batch_id].tasks[3].status = PROCESSING

Processing(batch) == {k \in 1..Len(batch.tasks) : batch.tasks[k].status = PROCESSING}

\* C24: in every batch a task has left Pending only if every task before
\* it is Completed or Failed; so at most one task of a batch is Processing
\* and everything before it is terminal.
C24_BatchTasksInOrder ==
  \A b \in DOMAIN batch_tasks :
    LET batch == batch_tasks[b] IN
    /\ Cardinality(Processing(batch)) <= 1
    /\ \A k \in 1..Len(batch.tasks) :
         batch.tasks[k].status # PENDING
           => \A j \in 1..(k - 1) : batch.tasks[j].status \in Terminal

C24_Witness ==
  \E b \in DOMAIN batch_tasks :
    /\ batch_tasks[b].total_files >= 3
    /\ batch_tasks[b].tasks[1].status = FAILED
    /\ batch_tasks[b].tasks[2].status = PROCESSING
    /\ batch_tasks[b].tasks[3].status = PENDING

WithStatus(batch, status) == {k \in 1..Len(batch.tasks) : batch.tasks[k].status = status}

CountersMatch(batch) ==
  /\ batch.completed_files = Cardinality(WithStatus(batch, COMPLETED))
  /\ batch.failed_files = Cardinality(WithStatus(batch, FAILED))

C26_ProcessingVisibleToReaders ==
  /\ \A t \in DOMAIN tasks :
       (tasks[t].status = PROCESSING /\ frame.fn = "perform_conversion")
         => ENABLED GetTaskStatus(t)
  /\ \A b \in DOMAIN batch_tasks :
       Processing(batch_tasks[b]) # {} => ENABLED GetBatchStatus(b)

\* what readers do get: no answer ever shows a task as Processing
NoReaderSeesProcessing ==
  /\ (response.of = "get_task_status" /\ response.code = 200)
       => response.task.status # PROCESSING
  /\ (response.of = "get_batch_status" /\ response.code = 200)
       => Processing(response.batch) = {}

\* the fields of a task record that perform_conversion never assigns
FixedFields(task) ==
  <<task.task_id, task.input_file, task.output_file, task.input_format,
    task.output_format, task.created_at, task.options>>

\* C27: a step of perform_conversion changes at most status, error_message
\* and completed_at of the task it was started for; that task's other fields,
\* every other task record and the set of task ids are unchanged by it.
C27_ExecuteFrame ==
  [][frame.fn = "perform_conversion"
       => /\ DOMAIN tasks' = DOMAIN tasks
          /\ \A t \in DOMAIN tasks :
               /\ FixedFields(tasks'[t]) = FixedFields(tasks[t])
               /\ t # frame.call.task_id => tasks'[t] = tasks[t]]_vars

\* perform_conversion has marked its task and is about to record the outcome
\* while another task is in the registry
C27_Witness ==
  /\ frame.fn = "perform_conversion" /\ frame.pc = "update"
  /\ frame.call.task_id \in DOMAIN tasks
  /\ tasks[frame.call.task_id].status = PROCESSING
  /\ \E u \in DOMAIN tasks : u # frame.call.task_id /\ tasks[u].status = PENDING

\* the task perform_conversion is running for was cancelled
RunsForCancelled ==
  /\ frame.fn = "perform_conversion"
  /\ frame.call.task_id \notin DOMAIN tasks

\* C28: when the record of a task was deleted before its perform_conversion
\* runs, the run goes through its three steps without touching the
\* registry and ends normally, and the id stays out of the registry from
\* then on; no task is deleted while its perform_conversion runs.
C28_CancelRacingExecute ==
  [][/\ RunsForCancelled
          => /\ tasks' = tasks
             /\ \/ frame'.fn = "perform_conversion" /\ frame'.result.kind = "return"
                \/ frame' = Idle
     /\ frame.fn = "perform_conversion"
          => (frame.call.task_id \in DOMAIN tasks <=> frame.call.task_id \in DOMAIN tasks')
     /\ \A t \in TaskIds :
          (t < nextTask /\ t \notin DOMAIN tasks) => t \notin DOMAIN tasks']_vars

\* the run for a cancelled task has converted and is about to record
C28_Witness ==
  /\ RunsForCancelled
  /\ frame.pc = "update"
  /\ response.of = "cancel_task" /\ response.code = 200
  /\ response.task_id = frame.call.task_id

\* C29: DELETE /batch/{id} on a batch that exists removes its record; from
\* then on the id is never in the batch table again and GET /batch/{id} and
\* GET /batch/{id}/download answer 404 for it; a process_batch_conversion
\* that was created for the batch and starts after the delete returns at
\* once: no convert_file call, no file written, no record created.
C29_CancelBatchRemovesBatch ==
  [][/\ \A b \in BatchIds :
          /\ (b \in DOMAIN batch_tasks /\ CancelBatch(b)) => b \notin DOMAIN batch_tasks'
          /\ (b < nextBatch /\ b \notin DOMAIN batch_tasks)
               => /\ b \notin DOMAIN batch_tasks'
                  /\ (GetBatchStatus(b) \/ DownloadBatchResults(b)) => response'.code = 404
     /\ \A s \in scheduled \ scheduled' :
          s.batch_id \notin DOMAIN batch_tasks
            => /\ frame' = Idle
               /\ converting' = 0
               /\ batch_tasks' = batch_tasks /\ tasks' = tasks /\ fs' = fs]_vars

\* the batch was deleted while its process_batch_conversion had been
\* created and not started
C29_Witness ==
  /\ response.of = "cancel_batch" /\ response.code = 200
  /\ response.batch_id \notin DOMAIN batch_tasks
  /\ \E s \in scheduled : s.batch_id = response.batch_id
  /\ frame = Idle

\* task ids with a perform_conversion call that is waiting or running
CallsPending ==
  UNION {{q[k].task_id : k \in 1..Len(q)} : q \in background}
    \cup (IF frame.fn = "perform_conversion"
          THEN {frame.call.task_id} \cup {frame.rest[k].task_id : k \in 1..Len(frame.rest)}
          ELSE {})

\* C30: every Pending task that POST /convert or POST /batch-convert put in
\* the registry has a perform_conversion call waiting or running for it,
\* also when the request that created it ended with an error.
C30_PendingTasksScheduled ==
  \A t \in DOMAIN tasks : tasks[t].status = PENDING => t \in CallsPending

====
